---- MODULE Spec2Model ----
(***************************************************************************)
(* Model of the flop trainer in src/app/page.tsx: the card text utilities, *)
(* the 5-7 card hand evaluator, the tuple comparator, the exhaustive       *)
(* opponent enumeration (analyzeSimple) and the page's decision handlers.  *)
(***************************************************************************)
EXTENDS Integers, Sequences, FiniteSets, TLC

(***************************************************************************)
(* Generic helpers standing for the JavaScript built-ins the code uses.    *)
(***************************************************************************)

\* null (a missing card, result or verdict)
Null == [null |-> TRUE]

\* null where the value is otherwise a string (a decision, a mini-game pick)
NullChoice == "null"

\* undefined, as produced by reading past the end of an array; no rank is negative
Undefined == 0 - 1

Max(a, b) == IF a >= b THEN a ELSE b

SetMax(S) == CHOOSE x \in S : \A y \in S : y <= x

SetMin(S) == CHOOSE x \in S : \A y \in S : x <= y

Range(seq) == { seq[i] : i \in 1..Len(seq) }

\* Array.prototype.slice(0, n)
Take(seq, n) == IF Len(seq) <= n THEN seq ELSE SubSeq(seq, 1, n)

\* arr[0] of a JavaScript array: undefined when the array is empty
First(seq) == IF Len(seq) = 0 THEN Undefined ELSE seq[1]

\* the array without its element at index i
RemoveAt(seq, i) == SubSeq(seq, 1, i - 1) \o SubSeq(seq, i + 1, Len(seq))

\* [...vals].sort((a,b)=>b-a) on an array of numbers
RECURSIVE SortDesc(_)
SortDesc(vals) ==
  IF vals = <<>> THEN <<>>
  ELSE LET m == SetMax(Range(vals))
           i == CHOOSE k \in 1..Len(vals) : vals[k] = m
       IN  <<m>> \o SortDesc(RemoveAt(vals, i))

\* [...new Set(ranks)].sort((a,b)=>a-b)
RECURSIVE SortedDistinctAsc(_)
SortedDistinctAsc(S) ==
  IF S = {} THEN <<>>
  ELSE LET m == SetMin(S) IN <<m>> \o SortedDistinctAsc(S \ {m})

(***************************************************************************)
(* Card utils                                                              *)
(***************************************************************************)

rankChars == <<"2", "3", "4", "5", "6", "7", "8", "9", "T", "J", "Q", "K", "A">>

suitChars == <<"s", "h", "d", "c">>

Card == [r : 2..14, s : Range(suitChars)]

\* for (r = 2..14) for (s of suitChars) deck.push({r, s})
makeDeck ==
  [k \in 1..(Len(rankChars) * Len(suitChars)) |->
     [r |-> 2 + ((k - 1) \div Len(suitChars)),
      s |-> suitChars[1 + ((k - 1) % Len(suitChars))]]]

cardsEqual(a, b) == a.r = b.r /\ a.s = b.s

\* a text is the array of its characters; rankChars[c.r-2] + c.s
cardToStr(c) == <<rankChars[(c.r - 2) + 1], c.s>>

\* the letters the card texts can hold, as <<lower case, upper case>>
casePairs ==
  { <<"a", "A">>, <<"c", "C">>, <<"d", "D">>, <<"h", "H">>, <<"j", "J">>,
    <<"k", "K">>, <<"q", "Q">>, <<"s", "S">>, <<"t", "T">>, <<"x", "X">> }

whitespace == {" "}

upperChar(ch) ==
  IF \E p \in casePairs : p[1] = ch
  THEN (CHOOSE p \in casePairs : p[1] = ch)[2] ELSE ch

\* the suit character read without .toLowerCase()
lowerChar_skipped(ch) == ch

lowerChar(ch) ==
  IF \E p \in casePairs : p[2] = ch
  THEN (CHOOSE p \in casePairs : p[2] = ch)[1] ELSE ch

\* String.prototype.toUpperCase
toUpperCase(t) == [i \in 1..Len(t) |-> upperChar(t[i])]

\* String.prototype.trim
RECURSIVE trimStart(_)
trimStart(t) ==
  IF t # <<>> /\ Head(t) \in whitespace THEN trimStart(Tail(t)) ELSE t

RECURSIVE trimEnd(_)
trimEnd(t) ==
  IF t # <<>> /\ t[Len(t)] \in whitespace
  THEN trimEnd(SubSeq(t, 1, Len(t) - 1)) ELSE t

trim(t) == trimEnd(trimStart(t))

\* Array.prototype.indexOf, 0-based, -1 when absent
indexOf(arr, v) ==
  LET hits == { i \in 1..Len(arr) : arr[i] = v }
  IN  IF hits = {} THEN 0 - 1 ELSE SetMin(hits) - 1

\* the card strToCard builds once the rank index and the suit are accepted
cardOfIndex(rIdx, sChar) == [r |-> rIdx + 2, s |-> sChar]

strToCard(t) ==
  LET v     == toUpperCase(trim(t))
      rChar == v[1]
      sChar == lowerChar(v[Len(v)])
      rIdx  == indexOf(rankChars, rChar)
  IN  IF Len(v) < 2 THEN Null
      ELSE IF rIdx = 0 - 1 THEN Null
      ELSE IF sChar \notin Range(suitChars) THEN Null
      ELSE cardOfIndex(rIdx, sChar)

(***************************************************************************)
(* Hand evaluation                                                         *)
(***************************************************************************)

ranksOf(cards) == [i \in 1..Len(cards) |-> cards[i].r]

\* Map rank -> count, as entries <<rank, count>> sorted count desc, then rank desc
RECURSIVE sortEntries(_)
sortEntries(E) ==
  IF E = {} THEN <<>>
  ELSE LET top == CHOOSE e \in E :
                    \A f \in E : e[2] > f[2] \/ (e[2] = f[2] /\ e[1] >= f[1])
       IN  <<top>> \o sortEntries(E \ {top})

countsByRank(cards) ==
  sortEntries({ <<r, Cardinality({i \in 1..Len(cards) : cards[i].r = r})>> :
                r \in Range(ranksOf(cards)) })

\* the suits of the hand in order of first appearance (Map insertion order)
RECURSIVE suitOrder(_, _)
suitOrder(cards, seen) ==
  IF cards = <<>> THEN seen
  ELSE suitOrder(Tail(cards),
                 IF Head(cards).s \in Range(seen) THEN seen
                 ELSE Append(seen, Head(cards).s))

\* the Map's values in iteration order: one array of cards per suit
suitGroups(cards) ==
  LET order == suitOrder(cards, <<>>)
  IN  [g \in 1..Len(order) |-> SelectSeq(cards, LAMBDA c : c.s = order[g])]

RECURSIVE straightLoop(_, _, _, _)
straightLoop(arr, i, run, best) ==
  IF i > Len(arr) THEN best
  ELSE IF arr[i] = arr[i - 1] + 1
       THEN straightLoop(arr, i + 1, run + 1,
                         IF run + 1 >= 5 THEN Max(best, arr[i]) ELSE best)
       ELSE IF arr[i] # arr[i - 1]
            THEN straightLoop(arr, i + 1, 1, best)
            ELSE straightLoop(arr, i + 1, run, best)

\* the Ace never counted as rank 1
bestStraightHigh_aceHighOnly(ranks) ==
  straightLoop(SortedDistinctAsc(Range(ranks)), 2, 1, 0)

bestStraightHigh(ranks) ==
  LET sorted == SortedDistinctAsc(Range(ranks))
      arr == IF 14 \in Range(ranks) THEN <<1>> \o sorted ELSE sorted
  IN  straightLoop(arr, 2, 1, 0)

topNDesc(vals, n) == Take(SortDesc(vals), n)

\* cnts.filter(([,c]) => c === k).map(([r]) => r).sort((a,b) => b-a)
ranksWithCount(cnts, k) ==
  LET hit == SelectSeq(cnts, LAMBDA e : e[2] = k)
  IN  SortDesc([i \in 1..Len(hit) |-> hit[i][1]])

\* the filter left out: the ranks of all the cards
otherRanks_all(cards, not) == ranksOf(cards)

\* the ranks of the cards whose rank is none of those in `not`
otherRanks(cards, not) == ranksOf(SelectSeq(cards, LAMBDA c : c.r \notin not))

\* the run looked for among the ranks of all the cards, not of the suit
firstStraightFlush_anySuit(bySuit) ==
  LET all  == UNION { Range(ranksOf(bySuit[g])) : g \in 1..Len(bySuit) }
      hits == { g \in 1..Len(bySuit) :
                  Len(bySuit[g]) >= 5 /\ bestStraightHigh(SortedDistinctAsc(all)) > 0 }
  IN  IF hits = {} THEN 0 ELSE SetMin(hits)

\* index of the first suit group that yields a straight flush, 0 if none
firstStraightFlush(bySuit) ==
  LET hits == { g \in 1..Len(bySuit) :
                  Len(bySuit[g]) >= 5 /\ bestStraightHigh(ranksOf(bySuit[g])) > 0 }
  IN  IF hits = {} THEN 0 ELSE SetMin(hits)

\* index of the first suit group with 5 or more cards, 0 if none
firstFlush(bySuit) ==
  LET hits == { g \in 1..Len(bySuit) : Len(bySuit[g]) >= 5 }
  IN  IF hits = {} THEN 0 ELSE SetMin(hits)

\* the lowest pair taken instead of the highest
fullHousePair_lowestPair(trips, pairs) ==
  IF Len(trips) >= 2 THEN trips[2] ELSE pairs[Len(pairs)]

fullHousePair(trips, pairs) == IF Len(trips) >= 2 THEN trips[2] ELSE pairs[1]

\* the kicker looked for among the unpaired cards only
twoPairKicker_unpaired(cards, p1, p2) ==
  First(topNDesc(
    ranksOf(SelectSeq(cards, LAMBDA c :
      Cardinality({ i \in 1..Len(cards) : cards[i].r = c.r }) = 1)), 1))

twoPairKicker(cards, p1, p2) == First(topNDesc(otherRanks(cards, {p1, p2}), 1))

evaluate(cards) ==
  LET bySuit == suitGroups(cards)
      sf     == firstStraightFlush(bySuit)
      cnts   == countsByRank(cards)
      quads  == ranksWithCount(cnts, 4)
      trips  == ranksWithCount(cnts, 3)
      pairs  == ranksWithCount(cnts, 2)
      fl     == firstFlush(bySuit)
      sh     == bestStraightHigh(ranksOf(cards))
  IN  IF sf > 0 THEN <<8, bestStraightHigh(ranksOf(bySuit[sf]))>>
      ELSE IF Len(quads) > 0
        THEN <<7, quads[1], First(topNDesc(otherRanks(cards, {quads[1]}), 1))>>
      ELSE IF Len(trips) >= 2 \/ (Len(trips) >= 1 /\ Len(pairs) >= 1)
        THEN <<6, trips[1], fullHousePair(trips, pairs)>>
      ELSE IF fl > 0 THEN <<5>> \o topNDesc(ranksOf(bySuit[fl]), 5)
      ELSE IF sh > 0 THEN <<4, sh>>
      ELSE IF Len(trips) > 0
        THEN <<3, trips[1]>> \o topNDesc(otherRanks(cards, {trips[1]}), 2)
      ELSE IF Len(pairs) >= 2
        THEN <<2, pairs[1], pairs[2], twoPairKicker(cards, pairs[1], pairs[2])>>
      ELSE IF Len(pairs) = 1
        THEN <<1, pairs[1]>> \o topNDesc(otherRanks(cards, {pairs[1]}), 3)
      ELSE <<0>> \o topNDesc(ranksOf(cards), 5)

\* a[i] ?? 0
At(a, i) == IF i > Len(a) \/ a[i] = Undefined THEN 0 ELSE a[i]

\* the difference taken the wrong way round
compareRankTuples_swapped(a, b) ==
  LET n == Max(Len(a), Len(b))
      diff == { i \in 1..n : At(a, i) # At(b, i) }
  IN  IF diff = {} THEN 0 ELSE At(b, SetMin(diff)) - At(a, SetMin(diff))

compareRankTuples(a, b) ==
  LET n == Max(Len(a), Len(b))
      diff == { i \in 1..n : At(a, i) # At(b, i) }
  IN  IF diff = {} THEN 0 ELSE At(a, SetMin(diff)) - At(b, SetMin(diff))

catNames ==
  <<"High Card", "One Pair", "Two Pair", "Three of a Kind", "Straight",
    "Flush", "Full House", "Four of a Kind", "Straight Flush">>

catName(cat) == IF cat + 1 \in 1..Len(catNames) THEN catNames[cat + 1] ELSE ""

(***************************************************************************)
(* Beginner analysis over all opponent combos                              *)
(***************************************************************************)

\* rm(c): const i = deck.findIndex(x => cardsEqual(x, c)); if (i >= 0) deck.splice(i, 1)
rm(deck, c) ==
  LET hits == { i \in 1..Len(deck) : cardsEqual(deck[i], c) }
  IN  IF hits = {} THEN deck ELSE RemoveAt(deck, SetMin(hits))

\* the hero's cards alone taken out of the deck
removeKnown_heroOnly(deck, known) == rm(rm(deck, known[1]), known[2])

\* hero.forEach(rm); flop.forEach(rm)
RECURSIVE removeKnown(_, _)
removeKnown(deck, known) ==
  IF known = <<>> THEN deck ELSE removeKnown(rm(deck, Head(known)), Tail(known))

\* `${cardToStr(opp[0])} ${cardToStr(opp[1])}`
sampleText(opp) == cardToStr(opp[1]) \o <<" ">> \o cardToStr(opp[2])

\* a sample pushed while 3 or fewer are held
addToBreakdown_fourSamples(bd, label, opp) ==
  LET old == IF label \in DOMAIN bd THEN bd[label] ELSE [count |-> 0, samples |-> <<>>]
      new == [count   |-> old.count + 1,
              samples |-> IF Len(old.samples) <= 3
                          THEN Append(old.samples, sampleText(opp))
                          ELSE old.samples]
  IN  [l \in DOMAIN bd \cup {label} |-> IF l = label THEN new ELSE bd[l]]

\* breakdown[label].count++ and the push of a sample while fewer than 3 are held
addToBreakdown(bd, label, opp) ==
  LET old == IF label \in DOMAIN bd THEN bd[label] ELSE [count |-> 0, samples |-> <<>>]
      new == [count   |-> old.count + 1,
              samples |-> IF Len(old.samples) < 3
                          THEN Append(old.samples, sampleText(opp))
                          ELSE old.samples]
  IN  [l \in DOMAIN bd \cup {label} |-> IF l = label THEN new ELSE bd[l]]

\* the one element of a singleton set; { e(x) : x \in {v} } computes v once
Only(S) == CHOOSE x \in S : TRUE

\* the body of the inner loop for one opponent pair
classify(acc, opp, flop, heroRank) ==
  Only({ IF cmp > 0
         THEN [acc EXCEPT !.better = @ + 1,
                 !.betterBreakdown = addToBreakdown(@, catName(oppRank[1]), opp)]
         ELSE IF cmp < 0
         THEN [acc EXCEPT !.worse = @ + 1,
                 !.worseBreakdown = addToBreakdown(@, catName(oppRank[1]), opp)]
         ELSE [acc EXCEPT !.tie = @ + 1] :
         <<oppRank, cmp>> \in
           { <<t, compareRankTuples(t, heroRank)>> : t \in {evaluate(opp \o flop)} } })

\* for (let j = i+1; j < deck.length; j++): the iterations lo..hi, in order
\* (the first half of the range, then the second half on what the first left)
RECURSIVE innerLoop(_, _, _, _, _, _, _)
innerLoop(acc, deck, i, lo, hi, flop, heroRank) ==
  IF lo > hi THEN acc
  ELSE IF lo = hi THEN classify(acc, <<deck[i], deck[lo]>>, flop, heroRank)
  ELSE Only({ innerLoop(half, deck, i, mid + 1, hi, flop, heroRank) :
                <<mid, half>> \in
                  { <<m, innerLoop(acc, deck, i, lo, m, flop, heroRank)>> :
                      m \in {(lo + hi) \div 2} } })

\* for (let i = 0; i < deck.length; i++): the iterations lo..hi, in order
RECURSIVE outerLoop(_, _, _, _, _, _)
outerLoop(acc, deck, lo, hi, flop, heroRank) ==
  IF lo > hi THEN acc
  ELSE IF lo = hi THEN innerLoop(acc, deck, lo, lo + 1, Len(deck), flop, heroRank)
  ELSE Only({ outerLoop(half, deck, mid + 1, hi, flop, heroRank) :
                <<mid, half>> \in
                  { <<m, outerLoop(acc, deck, lo, m, flop, heroRank)>> :
                      m \in {(lo + hi) \div 2} } })

\* equal counts sent to Fold
recommend_foldOnEqual(better, worse) == IF better >= worse THEN "Fold" ELSE "Call"

\* the two answers exchanged
recommend_exchanged(better, worse) == IF better > worse THEN "Call" ELSE "Fold"

\* better > worse ? "Fold" : "Call"
recommend(better, worse) == IF better > worse THEN "Fold" ELSE "Call"

analyzeSimple(hero, flop) ==
  Only({ Only({ [heroCat         |-> catName(heroRank[1]),
                 better          |-> acc.better,
                 worse           |-> acc.worse,
                 tie             |-> acc.tie,
                 betterBreakdown |-> acc.betterBreakdown,
                 worseBreakdown  |-> acc.worseBreakdown,
                 recommendation  |-> recommend(acc.better, acc.worse)] :
                acc \in { outerLoop([better |-> 0, worse |-> 0, tie |-> 0,
                                     betterBreakdown |-> <<>>, worseBreakdown |-> <<>>],
                                    deck, 1, Len(deck), flop, heroRank) } }) :
         deck     \in { removeKnown(makeDeck, hero \o flop) },
         heroRank \in { evaluate(hero \o flop) } })

(***************************************************************************)
(* Actions: parsing the two text fields                                    *)
(***************************************************************************)

\* text.split(/\s+/).filter(Boolean): the maximal runs of non-whitespace
RECURSIVE splitOnWhitespace(_, _, _)
splitOnWhitespace(text, cur, parts) ==
  IF text = <<>>
  THEN IF cur = <<>> THEN parts ELSE Append(parts, cur)
  ELSE IF Head(text) \in whitespace
       THEN splitOnWhitespace(Tail(text), <<>>,
                              IF cur = <<>> THEN parts ELSE Append(parts, cur))
       ELSE splitOnWhitespace(Tail(text), Append(cur, Head(text)), parts)

\* for (const p of parts) { c = strToCard(p); if (!c) return null;
\*   if (cards.some(x => cardsEqual(x, c))) return null; cards.push(c); }
RECURSIVE parseLoop(_, _)
parseLoop(parts, cards) ==
  IF parts = <<>> THEN [cards |-> cards]
  ELSE LET c == strToCard(Head(parts))
       IN  IF c = Null THEN Null
           ELSE IF \E i \in 1..Len(cards) : cardsEqual(cards[i], c) THEN Null
           ELSE parseLoop(Tail(parts), Append(cards, c))

\* the check of the number of parts left out
parseCards_anyCount(text, n) == parseLoop(splitOnWhitespace(text, <<>>, <<>>), <<>>)

\* null, or the parsed cards boxed as [cards |-> ...]
parseCards(text, n) ==
  LET parts == splitOnWhitespace(text, <<>>, <<>>)
  IN  IF Len(parts) # n THEN Null ELSE parseLoop(parts, <<>>)

(***************************************************************************)
(* State                                                                   *)
(***************************************************************************)

VARIABLES
  holeText,   \* React state: the hole cards text
  flopText,   \* React state: the flop text
  busy,       \* React state: an analysis has been scheduled and has not run
  simple,     \* React state: the last SimpleResult, or Null
  decision,   \* React state: the user's last choice, or NullChoice
  verdict,    \* React state: {correct, expected} of the last analysis, or Null
  history,    \* React state: the recorded HistoryRows
  decisions,  \* React state: the number of recorded decisions
  showMini,   \* React state: the mini-game popup is open
  miniPick,   \* React state: the mini-game pick, or NullChoice
  timers,     \* the pending setTimeout callbacks, each with its remaining delay
  alertOpen,  \* an alert() dialog is open and blocks the page
  events,     \* the number of user events so far (edits, Call/Fold and deal clicks)
  pc,         \* which call is next when one function is exercised on its own
  arg,        \* the input of that call
  out         \* its result

pageVars ==
  <<holeText, flopText, busy, simple, decision, verdict, history, decisions,
    showMini, miniPick, timers, alertOpen, events>>

callVars == <<pc, arg, out>>

vars ==
  <<holeText, flopText, busy, simple, decision, verdict, history, decisions,
    showMini, miniPick, timers, alertOpen, events, pc, arg, out>>

\* "Ah Ad" and "Kc 7h 2d", the useState defaults
defaultHoleText == <<"A", "h", " ", "A", "d">>

defaultFlopText == <<"K", "c", " ", "7", "h", " ", "2", "d">>

\* the component's state as useState constructs it
pageInit ==
  /\ holeText = defaultHoleText
  /\ flopText = defaultFlopText
  /\ busy = FALSE
  /\ simple = Null
  /\ decision = NullChoice
  /\ verdict = Null
  /\ history = <<>>
  /\ decisions = 0
  /\ showMini = FALSE
  /\ miniPick = NullChoice
  /\ timers = <<>>
  /\ alertOpen = FALSE
  /\ events = 0

(***************************************************************************)
(* The card text functions exercised on their own                          *)
(***************************************************************************)

\* longest token drawn as input of strToCard
MaxTokenLen == 3

\* the characters the drawn tokens are made of
tokenChars == {"A", "a", "K", "T", "t", "2", "9", "s", "S", "h", "c", "x", "1", " "}

Tokens == UNION { [1..n -> tokenChars] : n \in 0..MaxTokenLen }

TextInit ==
  /\ pageInit
  /\ out = Null
  /\ \/ pc = "strToCard" /\ arg \in Tokens
     \/ pc = "cardToStr" /\ arg \in Range(makeDeck)

CallStrToCard ==
  /\ pc = "strToCard"
  /\ out' = strToCard(arg)
  /\ pc' = "parsed"
  /\ UNCHANGED <<arg, pageVars>>

CallCardToStr ==
  /\ pc = "cardToStr"
  /\ out' = cardToStr(arg)
  /\ pc' = "formatted"
  /\ UNCHANGED <<arg, pageVars>>

CallStrToCardOfText ==
  /\ pc = "formatted"
  /\ out' = strToCard(out)
  /\ pc' = "reparsed"
  /\ UNCHANGED <<arg, pageVars>>

TextNext == CallStrToCard \/ CallCardToStr \/ CallStrToCardOfText

SpecText == TextInit /\ [][TextNext]_vars

\* one rank character immediately followed by one suit character, in any case
wellShaped(t) ==
  /\ Len(t) = 2
  /\ upperChar(t[1]) \in Range(rankChars)
  /\ lowerChar(t[2]) \in Range(suitChars)

\* C6: strToCard accepts a token exactly when it is one rank character
\* immediately followed by one suit character; any other shape yields null.
C6_AcceptsOnlyRankThenSuit ==
  pc = "parsed" => ((out # Null) <=> wellShaped(arg))

\* C10: for each of the 52 cards c, strToCard(cardToStr(c)) is a card equal
\* to c in rank and suit.
C10_RoundTrip ==
  pc = "reparsed" => (out # Null /\ out.r = arg.r /\ out.s = arg.s)

C10_RoundTripOfTenOfClubs ==
  pc = "reparsed" /\ arg = [r |-> 10, s |-> "c"] /\ out = [r |-> 10, s |-> "c"]

(***************************************************************************)
(* evaluate exercised on its own                                           *)
(***************************************************************************)

\* "Hand evaluation (5-7 cards)"
minHandSize == 5

maxHandSize == 7

\* number of cards of universeCards the drawn hands are made of
UniverseSize == 12

mk(r, s) == [r |-> r, s |-> s]

\* hearts A-2-3-4-5-6 (wheel, six-high run, flush), the other deuces and
\* treys (quads, trips, full houses), a second four (three pairs), then more
universeCards ==
  <<mk(14, "h"), mk(2, "h"), mk(3, "h"), mk(4, "h"), mk(5, "h"), mk(6, "h"),
    mk(2, "s"), mk(2, "d"), mk(2, "c"), mk(3, "s"), mk(3, "d"), mk(4, "s"),
    mk(13, "h"), mk(12, "d"), mk(9, "c")>>

universeIdx == 1..(IF UniverseSize <= Len(universeCards)
                   THEN UniverseSize ELSE Len(universeCards))

\* the cards of `cards` at the indices I, in the order of `cards`
pick(cards, I) ==
  LET idx == SortedDistinctAsc(I) IN [k \in 1..Len(idx) |-> cards[idx[k]]]

noDuplicates(cards) ==
  \A i, j \in 1..Len(cards) : i # j => ~cardsEqual(cards[i], cards[j])

validHand(cards) ==
  Len(cards) \in minHandSize..maxHandSize /\ noDuplicates(cards)

\* duplicate-free hands of one card too few up to one card too many, and
\* five-card hands that hold one card twice
evalHands ==
  LET sets == { I \in SUBSET universeIdx :
                  Cardinality(I) \in (minHandSize - 1)..(maxHandSize + 1) }
      free == { pick(universeCards, I) : I \in sets }
  IN  free \cup { Append(h, h[1]) : h \in { g \in free : Len(g) = minHandSize - 1 } }

EvalInit ==
  /\ pageInit
  /\ pc = "evaluate"
  /\ arg \in evalHands
  /\ out = Null

\* evaluate has no throw statement: every call returns a tuple
CallEvaluate ==
  /\ pc = "evaluate"
  /\ out' = [kind |-> "return", value |-> evaluate(arg)]
  /\ pc' = "evaluated"
  /\ UNCHANGED <<arg, pageVars>>

EvalNext == CallEvaluate

SpecEval == EvalInit /\ [][EvalNext]_vars

\* the 5-card sub-hands of a hand
fiveCardSubsets(cards) ==
  { pick(cards, I) : I \in { J \in SUBSET (1..Len(cards)) : Cardinality(J) = 5 } }

\* the greatest, under compareRankTuples, of the tuples of the 5-card sub-hands
bestOfFive(cards) ==
  LET T == { evaluate(h) : h \in fiveCardSubsets(cards) }
  IN  CHOOSE t \in T : \A u \in T : compareRankTuples(t, u) >= 0

\* C3: for a duplicate-free hand of 5, 6 or 7 cards, evaluate equals (compares
\* 0 with) the best evaluate of its 5-card subsets; its category is in 0..8
\* and is the best category of any 5-card subset.
C3_EvaluateIsBestOfFive ==
  (pc = "evaluated" /\ validHand(arg)) =>
    /\ out.kind = "return"
    /\ compareRankTuples(out.value, bestOfFive(arg)) = 0
    /\ out.value[1] \in 0..8
    /\ out.value[1] = SetMax({ evaluate(h)[1] : h \in fiveCardSubsets(arg) })

C3_SevenCardsTwoTrips ==
  pc = "evaluated" /\ validHand(arg) /\ Len(arg) = 7 /\ out.value = <<6, 3, 2>>

\* C7: evaluate fails with an error when given fewer than 5 or more than 7
\* cards or a card twice; it never returns a tuple for such input.
C7_BadHandsAreRejected ==
  (pc = "evaluated" /\ ~validHand(arg)) => out.kind = "throw"

(***************************************************************************)
(* compareRankTuples exercised on the tuples evaluate produces             *)
(***************************************************************************)

\* number of cards of universeCards whose hands give the compared tuples
CmpUniverseSize == 10

cmpTuples ==
  { evaluate(pick(universeCards, I)) :
      I \in { J \in SUBSET (1..CmpUniverseSize) :
                Cardinality(J) \in minHandSize..maxHandSize } }

CmpInit ==
  /\ pageInit
  /\ pc = "compare"
  /\ arg \in cmpTuples \X cmpTuples
  /\ out = Null

CallCompare ==
  /\ pc = "compare"
  /\ out' = compareRankTuples(arg[1], arg[2])
  /\ pc' = "compared"
  /\ UNCHANGED <<arg, pageVars>>

CmpNext == CallCompare

SpecCmp == CmpInit /\ [][CmpNext]_vars

sign(n) == IF n > 0 THEN 1 ELSE IF n < 0 THEN 0 - 1 ELSE 0

\* C4: compareRankTuples is a total order on the tuples evaluate produces:
\* compare(x,x) = 0, sign(compare(a,b)) = -sign(compare(b,a)), transitive,
\* 0 only for identical tuples, and the higher category always compares greater.
C4_TotalOrder ==
  pc = "compared" =>
    LET a == arg[1]
        b == arg[2]
    IN  /\ compareRankTuples(a, a) = 0
        /\ sign(out) = 0 - sign(compareRankTuples(b, a))
        /\ (out = 0 => a = b)
        /\ (a[1] > b[1] => out > 0)
        /\ \A c \in cmpTuples :
             /\ (out >= 0 /\ compareRankTuples(b, c) >= 0)
                  => compareRankTuples(a, c) >= 0
             /\ (out > 0 /\ compareRankTuples(b, c) > 0)
                  => compareRankTuples(a, c) > 0

C4_SameCategoryDecidedByKicker ==
  /\ pc = "compared"
  /\ arg[1][1] = 1 /\ arg[2][1] = 1
  /\ arg[1][2] = arg[2][2]
  /\ out > 0

(***************************************************************************)
(* analyzeSimple exercised on its own                                      *)
(***************************************************************************)

\* number of random deals drawn as inputs of analyzeSimple
NumDeals == 48

\* largest count given to the Fold/Call rule on its own
MaxCount == 3

\* const i = Math.floor(Math.random()*deck.length): the k-th sampled deal takes
\* this index at its j-th draw (any index below deck.length can come out)
drawIndex(k, j, len) == (k * (7 * j + 4) + 11 * j) % len

\* draw(): const c = deck[i]; deck.splice(i, 1); return c -- five times
RECURSIVE drawCards(_, _, _, _)
drawCards(deck, k, j, drawn) ==
  IF j > 5 THEN drawn
  ELSE LET i == drawIndex(k, j, Len(deck)) + 1
       IN  drawCards(RemoveAt(deck, i), k, j + 1, Append(drawn, deck[i]))

\* c1, c2 and f1, f2, f3 of the k-th sampled deal
dealOf(k) ==
  LET drawn == drawCards(makeDeck, k, 1, <<>>)
  IN  [hero |-> SubSeq(drawn, 1, 2), flop |-> SubSeq(drawn, 3, 5)]

\* the hands of the page's tests and defaults, a hand whose better and worse
\* counts are equal, and a hole card that is also on the flop
namedScenarios ==
  { [hero |-> <<mk(14, "h"), mk(14, "d")>>, flop |-> <<mk(13, "c"), mk(7, "h"), mk(2, "d")>>],
    [hero |-> <<mk(14, "h"), mk(14, "d")>>, flop |-> <<mk(14, "c"), mk(13, "c"), mk(2, "d")>>],
    [hero |-> <<mk(13, "c"), mk(12, "c")>>, flop |-> <<mk(11, "c"), mk(10, "c"), mk(9, "c")>>],
    [hero |-> <<mk(2, "c"), mk(2, "d")>>, flop |-> <<mk(14, "h"), mk(13, "h"), mk(12, "h")>>],
    [hero |-> <<mk(4, "c"), mk(14, "s")>>, flop |-> <<mk(9, "d"), mk(11, "s"), mk(8, "h")>>],
    [hero |-> <<mk(14, "h"), mk(13, "c")>>, flop |-> <<mk(13, "c"), mk(7, "h"), mk(2, "d")>>] }

scenarios == namedScenarios \cup { dealOf(k) : k \in 1..NumDeals }

AnalyzeInit ==
  /\ pageInit
  /\ out = Null
  /\ \/ pc = "analyzeSimple" /\ arg \in scenarios
     \/ pc = "recommend" /\ arg \in (0..MaxCount) \X (0..MaxCount)

CallAnalyzeSimple ==
  /\ pc = "analyzeSimple"
  /\ out' = analyzeSimple(arg.hero, arg.flop)
  /\ pc' = "analyzed"
  /\ UNCHANGED <<arg, pageVars>>

\* the Fold/Call rule of analyzeSimple's last statement applied to given counts
CallRecommend ==
  /\ pc = "recommend"
  /\ out' = recommend(arg[1], arg[2])
  /\ pc' = "recommended"
  /\ UNCHANGED <<arg, pageVars>>

AnalyzeNext == CallAnalyzeSimple \/ CallRecommend

SpecAnalyze == AnalyzeInit /\ [][AnalyzeNext]_vars

\* 2 hero cards and 3 flop cards, pairwise distinct
properInput(sc) ==
  Len(sc.hero) = 2 /\ Len(sc.flop) = 3 /\ noDuplicates(sc.hero \o sc.flop)

\* C1: for hero and flop pairwise distinct and disjoint, the counts of
\* analyzeSimple satisfy better + worse + tie = 1081 (47 choose 2).
C1_CountsSumTo1081 ==
  (pc = "analyzed" /\ properInput(arg)) =>
    out.better + out.worse + out.tie = 1081

C1_AcesOnDryFlopAnalyzed ==
  /\ pc = "analyzed"
  /\ arg = [hero |-> <<mk(14, "h"), mk(14, "d")>>,
            flop |-> <<mk(13, "c"), mk(7, "h"), mk(2, "d")>>]
  /\ out.better > 0 /\ out.worse > 0 /\ out.tie > 0
  /\ out.better + out.worse + out.tie = 1081

\* C12: for hero 2c 2d on flop Ah Kh Qh, analyzeSimple reports heroCat
\* "One Pair", better > worse and the recommendation Fold.
C12_LowPairOnHighSuitedFlopFolds ==
  (/\ pc = "analyzed"
   /\ arg = [hero |-> <<mk(2, "c"), mk(2, "d")>>,
             flop |-> <<mk(14, "h"), mk(13, "h"), mk(12, "h")>>]) =>
    /\ out.heroCat = "One Pair"
    /\ out.better > out.worse
    /\ out.recommendation = "Fold"

\* C12 as amended: for hero 2c 2d on flop Ah Kh Qh, analyzeSimple reports
\* heroCat "One Pair" with better = 492, worse = 588 and tie = 1, so better is
\* large but below worse and the recommendation is Call.
C12_LowPairOnHighSuitedFlopCalls ==
  (/\ pc = "analyzed"
   /\ arg = [hero |-> <<mk(2, "c"), mk(2, "d")>>,
             flop |-> <<mk(14, "h"), mk(13, "h"), mk(12, "h")>>]) =>
    /\ out.heroCat = "One Pair"
    /\ out.better = 492 /\ out.worse = 588 /\ out.tie = 1
    /\ out.recommendation = "Call"

\* the deuces on Ah Kh Qh have been analysed: every pair, flush and straight
\* is ahead of them, every unpaired hand without one is behind
C12_DeucesAnalyzed ==
  /\ pc = "analyzed"
  /\ arg.hero = <<mk(2, "c"), mk(2, "d")>>
  /\ arg.flop = <<mk(14, "h"), mk(13, "h"), mk(12, "h")>>
  /\ DOMAIN out.betterBreakdown =
       {"One Pair", "Two Pair", "Three of a Kind", "Straight", "Flush", "Straight Flush"}
  /\ DOMAIN out.worseBreakdown = {"High Card"}

\* C2: the recommendation is Fold if and only if better > worse, and Call
\* whenever better <= worse, including better = worse and better = worse = 0.
C2_FoldIffBetterExceedsWorse ==
  /\ pc = "analyzed" =>
       /\ (out.recommendation = "Fold") <=> (out.better > out.worse)
       /\ (out.better <= out.worse) => out.recommendation = "Call"
  /\ pc = "recommended" =>
       /\ (out = "Fold") <=> (arg[1] > arg[2])
       /\ (arg[1] <= arg[2]) => out = "Call"

C2_EqualCountsCall ==
  /\ pc = "analyzed"
  /\ out.better = out.worse
  /\ out.better > 0
  /\ out.recommendation = "Call"

\* the deck without the known cards, in deck order
remainingDeck(sc) ==
  SelectSeq(makeDeck, LAMBDA c : c \notin Range(sc.hero \o sc.flop))

\* every opponent pair i < j of the remaining deck, as <<i, j, side, label>>:
\* side 1 when the pair beats the hero, -1 when it loses, 0 on a tie
classifiedPairs(sc) ==
  LET deck == remainingDeck(sc)
      heroRank == evaluate(sc.hero \o sc.flop)
      n == Len(deck)
  IN  { LET r == evaluate(<<deck[p[1]], deck[p[2]]>> \o sc.flop)
        IN  <<p[1], p[2], sign(compareRankTuples(r, heroRank)), catName(r[1])>> :
        p \in { q \in (1..n) \X (1..n) : q[1] < q[2] } }

\* the first n pairs of Q in the i < j enumeration order
RECURSIVE firstPairs(_, _)
firstPairs(Q, n) ==
  IF n = 0 \/ Q = {} THEN <<>>
  ELSE LET m == CHOOSE q \in Q :
                  \A o \in Q : q[1] < o[1] \/ (q[1] = o[1] /\ q[2] <= o[2])
       IN  <<m>> \o firstPairs(Q \ {m}, n - 1)

\* what a breakdown must hold for one side, given the classified pairs
breakdownAgrees(bd, total, side, sc, all) ==
  LET deck == remainingDeck(sc)
      mine(label) == { q \in all : q[3] = side /\ q[4] = label }
      labels == { q[4] : q \in { o \in all : o[3] = side } }
      text(q) == sampleText(<<deck[q[1]], deck[q[2]]>>)
  IN  /\ DOMAIN bd = labels
      /\ Cardinality({ q \in all : q[3] = side }) = total
      /\ \A label \in labels :
           LET firsts == firstPairs(mine(label), 3)
           IN  /\ bd[label].count = Cardinality(mine(label))
               /\ Len(bd[label].samples) =
                    (IF bd[label].count < 3 THEN bd[label].count ELSE 3)
               /\ bd[label].samples = [k \in 1..Len(firsts) |-> text(firsts[k])]

RECURSIVE sumCounts(_, _)
sumCounts(bd, labels) ==
  IF labels = {} THEN 0
  ELSE LET l == CHOOSE m \in labels : TRUE
       IN  bd[l].count + sumCounts(bd, labels \ {l})

\* C9: in every result of analyzeSimple the counts of betterBreakdown sum to
\* better and those of worseBreakdown to worse, and each category entry holds
\* exactly min(3, count) samples: the first opponent pairs of that category in
\* the i < j enumeration order of the remaining deck.
C9_BreakdownsMatchCounts ==
  pc = "analyzed" =>
    LET all == classifiedPairs(arg)
    IN  /\ sumCounts(out.betterBreakdown, DOMAIN out.betterBreakdown) = out.better
        /\ sumCounts(out.worseBreakdown, DOMAIN out.worseBreakdown) = out.worse
        /\ breakdownAgrees(out.betterBreakdown, out.better, 1, arg, all)
        /\ breakdownAgrees(out.worseBreakdown, out.worse, 0 - 1, arg, all)

C9_CategoryWithMoreThanThreePairs ==
  /\ pc = "analyzed"
  /\ "Two Pair" \in DOMAIN out.betterBreakdown
  /\ out.betterBreakdown["Two Pair"].count > 3
  /\ Len(out.betterBreakdown["Two Pair"].samples) = 3
  /\ "High Card" \in DOMAIN out.worseBreakdown
  /\ out.worseBreakdown["High Card"].count > 3

(***************************************************************************)
(* The page: text fields, Call/Fold buttons, deals and timers              *)
(***************************************************************************)

\* user events in one run: text edits, Call/Fold clicks and deal clicks
MaxEvents == 4

\* the sampled deals randomizeScenario can produce
pageDeals == {1}

\* setTimeout(..., 10), in units of 10 ms
analysisDelay == 1

\* setTimeout(randomizeScenario, i*60) for i < 8, in units of 10 ms
dealStagger == 6

dealTimers == 8

\* [...h, row].slice(-200)
historyCap == 200

\* `${cardToStr(c1)} ${cardToStr(c2)}` and the like
RECURSIVE joinCards(_)
joinCards(cards) ==
  IF Len(cards) = 0 THEN <<>>
  ELSE IF Len(cards) = 1 THEN cardToStr(cards[1])
  ELSE cardToStr(cards[1]) \o <<" ">> \o joinCards(Tail(cards))

\* the texts the user types into the hole field: the default, a hole card that
\* is also on the default flop, a single card, and one more valid hole
typedHoleTexts ==
  { defaultHoleText,
    joinCards(<<mk(14, "h"), mk(13, "c")>>),
    <<"A", "h">>,
    joinCards(<<mk(4, "c"), mk(14, "s")>>) }

\* the texts the user types into the flop field: the default, one more valid
\* flop, and a flop of two cards
typedFlopTexts ==
  { defaultFlopText,
    joinCards(<<mk(9, "d"), mk(11, "s"), mk(8, "h")>>),
    <<"K", "c", " ", "7", "h">> }

dealtHoleTexts == { joinCards(dealOf(k).hero) : k \in pageDeals }

dealtFlopTexts == { joinCards(dealOf(k).flop) : k \in pageDeals }

\* analyzeSimple of every hero and flop the two fields can parse to, computed once
analyses ==
  { <<h, f, analyzeSimple(h, f)>> :
      h \in { parseCards(t, 2).cards :
                t \in { u \in typedHoleTexts \cup dealtHoleTexts : parseCards(u, 2) # Null } },
      f \in { parseCards(t, 3).cards :
                t \in { u \in typedFlopTexts \cup dealtFlopTexts : parseCards(u, 3) # Null } } }

analysisOf(hero, flop) == (CHOOSE a \in analyses : a[1] = hero /\ a[2] = flop)[3]

\* a new timer goes behind the pending timers that are due no later
schedule(pending, t) ==
  LET before == SelectSeq(pending, LAMBDA u : u.left <= t.left)
      after  == SelectSeq(pending, LAMBDA u : u.left > t.left)
  IN  before \o <<t>> \o after

\* for (let i = 0; i < 8; i++) setTimeout(randomizeScenario, i*60)
RECURSIVE scheduleDeals(_, _)
scheduleDeals(pending, i) ==
  IF i >= dealTimers THEN pending
  ELSE scheduleDeals(schedule(pending, [kind |-> "deal", left |-> i * dealStagger]), i + 1)

lastN(seq, n) == IF Len(seq) <= n THEN seq ELSE SubSeq(seq, Len(seq) - n + 1, Len(seq))

\* if (!hero || !flop) { alert(...); return; }
rejected(hero, flop) == hero = Null \/ flop = Null

\* setBusy(true) moved in front of the parse check
busyAfterDecide_early(isRejected, wasBusy) == TRUE

\* setBusy(true) comes after the return of the rejected case
busyAfterDecide(isRejected, wasBusy) == IF isRejected THEN wasBusy ELSE TRUE

\* equal counts accepted whatever the user chose
isCorrect_anyChoiceOnEqual(userChoice, res) ==
  userChoice = res.recommendation \/ res.better = res.worse

\* userChoice === res.recommendation || (res.better === res.worse && userChoice === "Call")
isCorrect(userChoice, res) ==
  userChoice = res.recommendation \/ (res.better = res.worse /\ userChoice = "Call")

\* onChange of the hole field
SetHoleText(t) ==
  /\ pc = "page"
  /\ ~alertOpen
  /\ events < MaxEvents
  /\ t # holeText
  /\ holeText' = t
  /\ events' = events + 1
  /\ UNCHANGED <<flopText, busy, simple, decision, verdict, history, decisions,
                 showMini, miniPick, timers, alertOpen, callVars>>

\* onChange of the flop field
SetFlopText(t) ==
  /\ pc = "page"
  /\ ~alertOpen
  /\ events < MaxEvents
  /\ t # flopText
  /\ flopText' = t
  /\ events' = events + 1
  /\ UNCHANGED <<holeText, busy, simple, decision, verdict, history, decisions,
                 showMini, miniPick, timers, alertOpen, callVars>>

\* onDecide(userChoice): setDecision(userChoice); evaluateAndRecord(userChoice).
\* The two buttons are disabled while busy.
OnDecide(userChoice) ==
  LET hero == parseCards(holeText, 2)
      flop == parseCards(flopText, 3)
  IN  /\ pc = "page"
      /\ ~alertOpen
      /\ ~busy
      /\ events < MaxEvents
      /\ events' = events + 1
      /\ decision' = userChoice
      /\ busy' = busyAfterDecide(rejected(hero, flop), busy)
      /\ IF rejected(hero, flop)
         THEN /\ alertOpen' = TRUE
              /\ UNCHANGED timers
         ELSE /\ timers' = schedule(timers,
                   [kind |-> "analysis", left |-> analysisDelay,
                    hero |-> hero.cards, flop |-> flop.cards,
                    userChoice |-> userChoice,
                    holeText |-> holeText, flopText |-> flopText])
              /\ UNCHANGED alertOpen
      /\ UNCHANGED <<holeText, flopText, simple, verdict, history, decisions,
                     showMini, miniPick, callVars>>

\* the callback evaluateAndRecord hands to setTimeout
RunAnalysis ==
  /\ pc = "page"
  /\ ~alertOpen
  /\ timers # <<>>
  /\ Head(timers).left = 0
  /\ Head(timers).kind = "analysis"
  /\ LET t    == Head(timers)
         res  == analysisOf(t.hero, t.flop)
         row  == [hole |-> trim(t.holeText), flop |-> trim(t.flopText),
                  heroCat |-> res.heroCat, better |-> res.better,
                  worse |-> res.worse, tie |-> res.tie,
                  recommendation |-> res.recommendation,
                  decision |-> t.userChoice,
                  correct |-> isCorrect(t.userChoice, res)]
         next == decisions + 1
     IN  /\ simple' = res
         /\ verdict' = [correct |-> isCorrect(t.userChoice, res),
                        expected |-> res.recommendation]
         /\ history' = lastN(Append(history, row), historyCap)
         /\ busy' = FALSE
         /\ decisions' = next
         /\ IF next % 3 = 0
            THEN miniPick' = NullChoice /\ showMini' = TRUE
            ELSE UNCHANGED <<miniPick, showMini>>
  /\ timers' = Tail(timers)
  /\ UNCHANGED <<holeText, flopText, decision, alertOpen, events, callVars>>

\* randomizeScenario with the k-th sampled deal
randomizeScenario(k) ==
  /\ holeText' = joinCards(dealOf(k).hero)
  /\ flopText' = joinCards(dealOf(k).flop)
  /\ simple' = Null
  /\ verdict' = Null
  /\ decision' = NullChoice

\* the New Deal button, and the effect that deals once on mount
NewDeal(k) ==
  /\ pc = "page"
  /\ ~alertOpen
  /\ events < MaxEvents
  /\ randomizeScenario(k)
  /\ events' = events + 1
  /\ UNCHANGED <<busy, history, decisions, showMini, miniPick, timers, alertOpen, callVars>>

\* the Deal Me Something Nice button
DealMeSomethingNice ==
  /\ pc = "page"
  /\ ~alertOpen
  /\ events < MaxEvents
  /\ \A i \in 1..Len(timers) : timers[i].kind # "deal"
  /\ timers' = scheduleDeals(timers, 0)
  /\ events' = events + 1
  /\ UNCHANGED <<holeText, flopText, busy, simple, decision, verdict, history,
                 decisions, showMini, miniPick, alertOpen, callVars>>

\* one of the timers of Deal Me Something Nice fires
RunDealTimer(k) ==
  /\ pc = "page"
  /\ ~alertOpen
  /\ timers # <<>>
  /\ Head(timers).left = 0
  /\ Head(timers).kind = "deal"
  /\ randomizeScenario(k)
  /\ timers' = Tail(timers)
  /\ UNCHANGED <<busy, history, decisions, showMini, miniPick, alertOpen, events, callVars>>

\* no pending timer is due: time passes until the next one is
Tick ==
  /\ pc = "page"
  /\ ~alertOpen
  /\ timers # <<>>
  /\ \A i \in 1..Len(timers) : timers[i].left > 0
  /\ timers' = [i \in 1..Len(timers) |->
                 [timers[i] EXCEPT !.left = @ - Head(timers).left]]
  /\ UNCHANGED <<holeText, flopText, busy, simple, decision, verdict, history,
                 decisions, showMini, miniPick, alertOpen, events, callVars>>

\* the popup's close button (choice = NullChoice) and its two Pick buttons
CloseMini(choice) ==
  /\ pc = "page"
  /\ ~alertOpen
  /\ showMini
  /\ showMini' = FALSE
  /\ miniPick' = IF choice = NullChoice THEN miniPick ELSE choice
  /\ UNCHANGED <<holeText, flopText, busy, simple, decision, verdict, history,
                 decisions, timers, alertOpen, events, callVars>>

\* clearHistory, confirmed
ClearHistory ==
  /\ pc = "page"
  /\ ~alertOpen
  /\ history # <<>>
  /\ history' = <<>>
  /\ UNCHANGED <<holeText, flopText, busy, simple, decision, verdict, decisions,
                 showMini, miniPick, timers, alertOpen, events, callVars>>

\* the user closes the alert dialog
DismissAlert ==
  /\ pc = "page"
  /\ alertOpen
  /\ alertOpen' = FALSE
  /\ UNCHANGED <<holeText, flopText, busy, simple, decision, verdict, history,
                 decisions, showMini, miniPick, timers, events, callVars>>

Init ==
  /\ pageInit
  /\ pc = "page"
  /\ arg = Null
  /\ out = Null

Next ==
  \/ \E t \in typedHoleTexts : SetHoleText(t)
  \/ \E t \in typedFlopTexts : SetFlopText(t)
  \/ \E userChoice \in {"Call", "Fold"} : OnDecide(userChoice)
  \/ RunAnalysis
  \/ \E k \in pageDeals : NewDeal(k)
  \/ DealMeSomethingNice
  \/ \E k \in pageDeals : RunDealTimer(k)
  \/ Tick
  \/ \E choice \in {NullChoice, "gun", "cannoli"} : CloseMini(choice)
  \/ ClearHistory
  \/ DismissAlert

Spec == Init /\ [][Next]_vars

\* C5: a hero and a flop that share a card are rejected like a parse error, so
\* no analysis is ever scheduled (and analyzeSimple never called) with a hero
\* and a flop that have a card in common.
C5_OverlapIsRejected ==
  \A i \in 1..Len(timers) :
    timers[i].kind = "analysis" => noDuplicates(timers[i].hero \o timers[i].flop)

\* C8: a Call or Fold click whose hole text or flop text parseCards rejects
\* schedules no analysis and leaves simple, verdict, history, busy and the
\* decision counter as they were.
C8_RejectedInputChangesNothing ==
  [][ ( /\ \E userChoice \in {"Call", "Fold"} : OnDecide(userChoice)
        /\ rejected(parseCards(holeText, 2), parseCards(flopText, 3)) )
      => UNCHANGED <<simple, verdict, history, busy, decisions, timers>> ]_vars

\* a click was rejected after an earlier decision had been analysed and recorded
C8_RejectedAfterARecordedDecision ==
  /\ alertOpen
  /\ rejected(parseCards(holeText, 2), parseCards(flopText, 3))
  /\ simple # Null
  /\ verdict # Null
  /\ history # <<>>
  /\ decisions > 0
  /\ ~busy
  /\ timers = <<>>

\* C17: after randomizeScenario has run, the result, the verdict and the
\* decision stay cleared until the next Call or Fold click: whenever no
\* decision has been made since the last deal, no result and no verdict of an
\* analysis started before that deal is shown.
C17_DealKeepsResultCleared ==
  decision = NullChoice => (simple = Null /\ verdict = Null)

\* C18: every verdict and every history row evaluateAndRecord records has
\* correct = true exactly when the user's decision equals the recommendation
\* of that analysis, equal counts of better and worse included.
C18_CorrectIffDecisionIsRecommendation ==
  [][ RunAnalysis =>
        LET t   == Head(timers)
            row == history'[Len(history')]
        IN  /\ verdict'.expected = simple'.recommendation
            /\ verdict'.correct <=> (t.userChoice = simple'.recommendation)
            /\ row.decision = t.userChoice
            /\ row.recommendation = simple'.recommendation
            /\ row.correct <=> (row.decision = row.recommendation) ]_vars

\* with better = worse a Call was recorded as correct, and the verdict shown
\* is that of the last row
C18_EqualCountsCallRecorded ==
  /\ history # <<>>
  /\ verdict # Null
  /\ simple # Null
  /\ LET row == history[Len(history)]
     IN  /\ row.better = row.worse
         /\ row.better = simple.better /\ row.worse = simple.worse
         /\ row.decision = "Call"
         /\ row.correct
         /\ verdict.correct

(***************************************************************************)
(* parseCards exercised on its own                                         *)
(***************************************************************************)

\* largest number of tokens in a drawn text
MaxParts == 3

\* the tokens the drawn texts are made of: three cards, a second spelling of
\* the first, a token strToCard reads as the first card, and two it rejects
parseTokens ==
  { <<"A", "h">>, <<"K", "c">>, <<"7", "d">>, <<"a", "H">>,
    <<"A", "K", "h">>, <<"X", "h">>, <<"A">> }

\* what goes between the tokens, and around the text
layouts ==
  { [sep |-> <<" ">>, pad |-> <<>>],
    [sep |-> <<" ", " ">>, pad |-> <<" ">>] }

RECURSIVE joinWith(_, _)
joinWith(parts, sep) ==
  IF parts = <<>> THEN <<>>
  ELSE IF Len(parts) = 1 THEN parts[1]
  ELSE parts[1] \o sep \o joinWith(Tail(parts), sep)

parseTexts ==
  { l.pad \o joinWith(parts, l.sep) \o l.pad :
      parts \in UNION { [1..k -> parseTokens] : k \in 0..MaxParts },
      l \in layouts }

ParseInit ==
  /\ pageInit
  /\ out = Null
  /\ pc = "parseCards"
  /\ arg \in [text : parseTexts, n : 1..MaxParts]

CallParseCards ==
  /\ pc = "parseCards"
  /\ out' = parseCards(arg.text, arg.n)
  /\ pc' = "parsedCards"
  /\ UNCHANGED <<arg, pageVars>>

ParseNext == CallParseCards

SpecParse == ParseInit /\ [][ParseNext]_vars

\* the whitespace-separated tokens of a text, found by their first characters
tokensOf(text) ==
  LET starts == { i \in 1..Len(text) :
                    /\ text[i] \notin whitespace
                    /\ (i = 1 \/ text[i - 1] \in whitespace) }
      endOf(i) == CHOOSE j \in i..Len(text) :
                    /\ \A k \in i..j : text[k] \notin whitespace
                    /\ (j = Len(text) \/ text[j + 1] \in whitespace)
      order  == SortedDistinctAsc(starts)
  IN  [k \in 1..Len(order) |-> SubSeq(text, order[k], endOf(order[k]))]

\* C11: parseCards(text, n) returns null whenever the number of
\* whitespace-separated tokens differs from n, whenever strToCard rejects a
\* token, and whenever two tokens denote the same card; otherwise it returns
\* the n cards in the order of the tokens.
C11_ParseCardsFailsOrReturnsInOrder ==
  pc = "parsedCards" =>
    LET toks  == tokensOf(arg.text)
        cards == [i \in 1..Len(toks) |-> strToCard(toks[i])]
        fails == \/ Len(toks) # arg.n
                 \/ \E i \in 1..Len(toks) : cards[i] = Null
                 \/ \E i, j \in 1..Len(toks) : i < j /\ cardsEqual(cards[i], cards[j])
    IN  IF fails THEN out = Null ELSE out = [cards |-> cards]

\* "Ah Ah" asked for as two cards came back null
C11_SameCardTwiceIsNull ==
  /\ pc = "parsedCards"
  /\ arg.text = <<"A", "h", " ", "A", "h">>
  /\ arg.n = 2
  /\ out = Null

(***************************************************************************)
(* bestStraightHigh exercised on its own                                   *)
(***************************************************************************)

\* the distinct ranks of a hand of up to 7 cards, lowest first and highest first
straightInputs ==
  UNION { { SortedDistinctAsc(S), SortDesc(SortedDistinctAsc(S)) } :
            S \in { T \in SUBSET (2..14) : Cardinality(T) \in 1..maxHandSize } }

StraightInit ==
  /\ pageInit
  /\ out = Null
  /\ pc = "bestStraightHigh"
  /\ arg \in straightInputs

CallBestStraightHigh ==
  /\ pc = "bestStraightHigh"
  /\ out' = bestStraightHigh(arg)
  /\ pc' = "straightFound"
  /\ UNCHANGED <<arg, pageVars>>

StraightNext == CallBestStraightHigh

SpecStraight == StraightInit /\ [][StraightNext]_vars

\* the ranks h such that h-4 .. h are all held, the Ace also standing for rank 1
runTops(S) ==
  LET held == IF 14 \in S THEN S \cup {1} ELSE S
  IN  { h \in 5..14 : \A k \in 0..4 : (h - k) \in held }

\* C13: bestStraightHigh returns the top rank of the highest run of 5
\* consecutive ranks, the Ace also counting as rank 1 (5 for A-2-3-4-5 only
\* when no higher run exists), and 0 when there is no run of 5; an Ace never
\* links a run across the top.
C13_HighestRunOfFive ==
  pc = "straightFound" =>
    /\ out = IF runTops(Range(arg)) = {} THEN 0 ELSE SetMax(runTops(Range(arg)))
    /\ (Range(arg) = {12, 13, 14, 2, 3}) => out = 0
    /\ (Range(arg) = {14, 2, 3, 4, 5, 6}) => out = 6

\* the wheel A-2-3-4-5 was found and reported as 5-high
C13_WheelIsFiveHigh ==
  pc = "straightFound" /\ arg = <<2, 3, 4, 5, 14>> /\ out = 5

(***************************************************************************)
(* evaluate exercised on suited hands, in several orders                   *)
(***************************************************************************)

\* number of cards of suitedCards the drawn hands are made of
SuitedUniverseSize == 11

\* hearts A-K-Q-J-T and 2-3-4-5 (royal and wheel straight flushes, flushes
\* without a run), the nine and eight of spades (runs of mixed suits), then more
suitedCards ==
  <<mk(14, "h"), mk(13, "h"), mk(12, "h"), mk(11, "h"), mk(10, "h"),
    mk(2, "h"), mk(3, "h"), mk(4, "h"), mk(5, "h"), mk(9, "s"), mk(8, "s"),
    mk(9, "h"), mk(13, "s"), mk(6, "h")>>

suitedIdx == 1..(IF SuitedUniverseSize <= Len(suitedCards)
                 THEN SuitedUniverseSize ELSE Len(suitedCards))

\* a hand as drawn, back to front, and with its first two cards moved to the end
orderings(h) ==
  { h,
    [i \in 1..Len(h) |-> h[Len(h) + 1 - i]],
    SubSeq(h, 3, Len(h)) \o SubSeq(h, 1, 2) }

suitedHands ==
  UNION { orderings(pick(suitedCards, I)) :
            I \in { J \in SUBSET suitedIdx :
                      Cardinality(J) \in minHandSize..maxHandSize } }

SuitedInit ==
  /\ pageInit
  /\ out = Null
  /\ pc = "evaluateSuited"
  /\ arg \in suitedHands

CallEvaluateSuited ==
  /\ pc = "evaluateSuited"
  /\ out' = evaluate(arg)
  /\ pc' = "evaluatedSuited"
  /\ UNCHANGED <<arg, pageVars>>

SuitedNext == CallEvaluateSuited

SpecSuited == SuitedInit /\ [][SuitedNext]_vars

\* the ranks a hand holds in suit s
suitRanks(cards, s) == { cards[i].r : i \in { j \in 1..Len(cards) : cards[j].s = s } }

\* the high ranks of the runs of five held within one suit
straightFlushTops(cards) == UNION { runTops(suitRanks(cards, s)) : s \in Range(suitChars) }

\* t is category 5 followed by the five highest ranks of R, highest first
isFlushTuple(t, R) ==
  /\ Len(t) = 6
  /\ t[1] = 5
  /\ \A i \in 2..6 : t[i] \in R
  /\ \A i \in 2..5 : t[i] > t[i + 1]
  /\ \A r \in R : r >= t[6] => \E i \in 2..6 : t[i] = r

\* C14: evaluate returns category 8 with the run's high rank exactly when five
\* cards of one suit have consecutive ranks, in whatever order the cards come;
\* a hand with five cards of a suit and no such run, also when it holds a
\* straight of mixed suits, is a Flush with the five highest ranks of the suit.
C14_StraightFlushNeedsOneSuit ==
  pc = "evaluatedSuited" =>
    LET tops == straightFlushTops(arg)
    IN  /\ (out[1] = 8) <=> (tops # {})
        /\ (tops # {}) => out = <<8, SetMax(tops)>>
        /\ \A s \in Range(suitChars) :
             (tops = {} /\ Cardinality(suitRanks(arg, s)) >= 5) =>
               isFlushTuple(out, suitRanks(arg, s))

\* five hearts without a run, and a K-high straight completed by the nine of
\* spades, came back as a Flush
C14_MixedStraightIsFlush ==
  /\ pc = "evaluatedSuited"
  /\ Range(arg) = { mk(13, "h"), mk(12, "h"), mk(11, "h"), mk(10, "h"),
                    mk(2, "h"), mk(9, "s") }
  /\ arg[1] = mk(9, "s")
  /\ out = <<5, 13, 12, 11, 10, 2>>

(***************************************************************************)
(* Full houses and trips among the hands of SpecEval                       *)
(***************************************************************************)

\* the number of cards of a hand that have rank r
copies(cards, r) == Cardinality({ i \in 1..Len(cards) : cards[i].r = r })

\* C15: for a full house among 5 to 7 cards evaluate returns [6, t, p], t the
\* highest rank held three times and p the highest other rank held at least
\* twice: of two ranks of three cards the lower is p, of two pairs the higher.
C15_FullHouseTakesHighestRanks ==
  (pc = "evaluated" /\ validHand(arg)) =>
    LET threes == { r \in 2..14 : copies(arg, r) = 3 }
        t      == SetMax(threes)
        twos   == { r \in 2..14 : r # t /\ copies(arg, r) >= 2 }
    IN  (/\ \A r \in 2..14 : copies(arg, r) < 4
         /\ threes # {}
         /\ twos # {}) => out.value = <<6, t, SetMax(twos)>>

\* three treys with a pair of deuces and a pair of fours: treys full of fours
C15_TripsWithTwoPairs ==
  /\ pc = "evaluated"
  /\ validHand(arg)
  /\ copies(arg, 3) = 3 /\ copies(arg, 2) = 2 /\ copies(arg, 4) = 2
  /\ out.value = <<6, 3, 4>>

\* C16: a duplicate-free hand of 5 to 7 cards with exactly one rank t held
\* three times, no other rank held twice or more, no straight and no flush
\* evaluates to [3, t, k1, k2], k1 > k2 the two highest remaining ranks, and
\* its category label is "Three of a Kind".
C16_TripsWithTwoKickers ==
  (pc = "evaluated" /\ validHand(arg)) =>
    LET ranks  == Range(ranksOf(arg))
        threes == { r \in ranks : copies(arg, r) = 3 }
    IN  (/\ Cardinality(threes) = 1
         /\ \A r \in ranks \ threes : copies(arg, r) = 1
         /\ runTops(ranks) = {}
         /\ \A s \in Range(suitChars) : Cardinality(suitRanks(arg, s)) < 5) =>
          LET t    == CHOOSE r \in threes : TRUE
              rest == ranks \ threes
              k1   == SetMax(rest)
              k2   == SetMax(rest \ {k1})
          IN  /\ out.value = <<3, t, k1, k2>>
              /\ k1 > k2
              /\ catName(out.value[1]) = "Three of a Kind"

\* three deuces with an ace and a six as kickers, out of a seven-card hand
C16_ThreeDeucesAceSix ==
  /\ pc = "evaluated"
  /\ validHand(arg)
  /\ Len(arg) = 7
  /\ out.value = <<3, 2, 14, 6>>

====
